---- MODULE Spec2Model ----
(***************************************************************************)
(* Model of src/app.py: the chat() tool-call resolution loop, the tool     *)
(* dispatcher handle_tool_calls(), the two tool handlers and               *)
(* send_pushover().                                                        *)
(*                                                                         *)
(* The completion API, the notification service and the caller of chat()   *)
(* are the environment.  Each call of openai.chat.completions.create       *)
(* either raises one of APIErrors or answers with a response.  Within one  *)
(* turn the API gives at most one response with a free batch of tool calls *)
(* (any of Batches, with any content); its other tool-call responses carry *)
(* PlainBatch.  Python strings are TLA+ strings, None is the string None,  *)
(* and a text built by an f-string is the sequence of its fragments.       *)
(***************************************************************************)
EXTENDS Integers, Sequences, FiniteSets, TLC

VARIABLES
    pc,                  \* per turn: "start", "loop", "returned", "raised"
    message,             \* chat's parameter message
    history,             \* chat's parameter history (the caller's list)
    messages,            \* chat's local transcript
    done,                \* chat's local done
    iteration,           \* chat's local iteration
    response,            \* chat's local response (the last one received)
    result,              \* the text chat returned
    raised,              \* the type of the exception that left chat
    tools,               \* module global tools
    system_prompt,       \* module global system_prompt
    pushover_configured, \* pushover_user and pushover_token are both set
    requests,            \* completion requests issued by the turn
    received,            \* the responses the turn's requests were answered with
    apiError,            \* the exception a completion request raised
    invoked,             \* tool handler invocations of the turn, in order
    lastPush,            \* what send_pushover returned in the current loop pass
    abortAt,             \* index of the tool call at which the last dispatch raised
    varied               \* the API has given its free batch in this turn

vars == <<pc, message, history, messages, done, iteration, response, result,
          raised, tools, system_prompt, pushover_configured, requests,
          received, apiError, invoked, lastPush, abortAt, varied>>

----------------------------------------------------------------------------
(* Bounds and program constants *)

MaxCalls == 2

max_iterations == 10

Turns == {1, 2}

None == "<None>"

Fallback == "I apologize, but I encountered an error processing your request."

ErrorPrefix == "I apologize, but I encountered an error processing your request. \n "

SystemPrompt == "system_prompt"

Tools == <<"record_user_details", "record_unknown_question">>

----------------------------------------------------------------------------
(* Data *)

Msg(role, content, tool_calls, tool_call_id) ==
    [role |-> role, content |-> content, tool_calls |-> tool_calls,
     tool_call_id |-> tool_call_id]

NoId == <<>>

Messages == {"Who are you?", "Mail me"}

Histories ==
    { <<>>,
      << Msg("user", "Hi", <<>>, NoId), Msg("assistant", "Hello", <<>>, NoId) >> }

ToolNames == {"record_user_details", "record_unknown_question", "unknown_tool"}

ArgsEmail == "{\"email\": \"a@b.com\"}"

ArgsQuestion == "{\"question\": \"What is the capital of X?\"}"

ArgsEmpty == "{}"

ArgsBad == "{\"email\": "

ArgStrings == {ArgsEmail, ArgsQuestion, ArgsEmpty, ArgsBad}

RegisteredNames == {"record_user_details", "record_unknown_question"}

\* What a tool call of the API's free batch may be.
CallKinds ==
    [name : RegisteredNames, arguments : ArgStrings]
        \cup [name : {"unknown_tool"}, arguments : {ArgsEmpty, ArgsBad}]

Batches == UNION { [1..k -> CallKinds] : k \in 0..MaxCalls }

PlainBatch == << [name |-> "record_unknown_question", arguments |-> ArgsQuestion] >>

ToolCallContents == {None, "Let me note that."}

\* Finish reason and content of the responses that request no tool call.
Finals ==
    { [finish_reason |-> "stop", content |-> "I am Ramesh."],
      [finish_reason |-> "stop", content |-> None],
      [finish_reason |-> "length", content |-> ""] }

PushOutcomes == {"delivered", "exception"}

\* Exceptions of the completion API, by what chat's except clause reads of
\* them: whether e.response exists, what e.response.json() gives, what the
\* decoded body holds under "error" and under "message".
APIErrors ==
    { [type |-> "RateLimitError", response |-> "json", error |-> "object",
       message |-> "rate limited"],
      [type |-> "APIConnectionError", response |-> "absent", error |-> "absent",
       message |-> None],
      [type |-> "InternalServerError", response |-> "notjson", error |-> "absent",
       message |-> None],
      [type |-> "APIStatusError", response |-> "json", error |-> "absent",
       message |-> None],
      [type |-> "BadRequestError", response |-> "json", error |-> "string",
       message |-> None] }

\* The exceptions drawn when two turns run side by side.
ConcErrors == { e \in APIErrors : e.type \in {"RateLimitError", "APIConnectionError"} }

\* json.JSONDecodeError and TypeError carry no response attribute.
LocalError(type) ==
    [type |-> type, response |-> "absent", error |-> "absent", message |-> None]

NoError == [type |-> "", response |-> "absent", error |-> "absent", message |-> None]

NoResponse == [finish_reason |-> "", content |-> None, tool_calls |-> <<>>]

NoResult == <<>>

----------------------------------------------------------------------------
(* Pure functions *)

\* json.loads on a tool call's arguments: the keys of the decoded object.
JsonLoads(s) ==
    CASE s = ArgsEmail    -> [ok |-> TRUE, keys |-> {"email"}]
      [] s = ArgsQuestion -> [ok |-> TRUE, keys |-> {"question"}]
      [] s = ArgsEmpty    -> [ok |-> TRUE, keys |-> {}]
      [] OTHER            -> [ok |-> FALSE, keys |-> {}]

\* json.dumps of a handler's result.
JsonDumps(d) ==
    CASE d.status = "success" -> "{\"status\": \"success\"}"
      [] d.status = "error"   -> "{\"status\": \"error\"}"
      [] OTHER                -> "{\"status\": 1}"

\* Python's binding of **args to a signature.
Binds(required, allowed, keys) == required \subseteq keys /\ keys \subseteq allowed

SendPushover(configured, outcome) ==
    IF ~configured
    THEN [status |-> "error", message |-> "Pushover not configured"]
    ELSE IF outcome = "exception"
         THEN [status |-> "error", message |-> "exception"]
         ELSE [status |-> "1", message |-> ""]

RecordUserDetailsPropagates(keys, configured, outcome) ==
    [status |-> SendPushover(configured, outcome).status]

RecordUserDetails(keys, configured, outcome) ==
    LET sent == SendPushover(configured, outcome)
    IN  [status |-> "success"]

RecordUnknownQuestion(keys, configured, outcome) ==
    LET sent == SendPushover(configured, outcome)
    IN  [status |-> "success"]

ToolResultWrongId(res, tool_call) ==
    Msg("tool", JsonDumps(res), <<>>, <<tool_call.id[1], 1>>)

ToolResult(res, tool_call) ==
    Msg("tool", JsonDumps(res), <<>>, tool_call.id)

Step(exc, results, inv, pushes) ==
    [exc |-> exc, results |-> results, invoked |-> inv, pushes |-> pushes]

Invocation(tool_call) == [name |-> tool_call.name, id |-> tool_call.id]

\* A variant whose dispatcher has an else branch that raises.
HandleOneElseRaises(tool_call, configured, outcome) ==
    IF tool_call.name = "record_user_details"
    THEN LET args == JsonLoads(tool_call.arguments)
         IN  IF ~args.ok
             THEN Step(LocalError("JSONDecodeError"), <<>>, <<>>, <<>>)
             ELSE IF ~Binds({"email"}, {"email", "name", "notes"}, args.keys)
             THEN Step(LocalError("TypeError"), <<>>, <<>>, <<>>)
             ELSE Step(NoError,
                       <<ToolResult(RecordUserDetails(args.keys, configured, outcome),
                                    tool_call)>>,
                       <<Invocation(tool_call)>>,
                       <<SendPushover(configured, outcome).status>>)
    ELSE IF tool_call.name = "record_unknown_question"
    THEN LET args == JsonLoads(tool_call.arguments)
         IN  IF ~args.ok
             THEN Step(LocalError("JSONDecodeError"), <<>>, <<>>, <<>>)
             ELSE IF ~Binds({"question"}, {"question"}, args.keys)
             THEN Step(LocalError("TypeError"), <<>>, <<>>, <<>>)
             ELSE Step(NoError,
                       <<ToolResult(RecordUnknownQuestion(args.keys, configured, outcome),
                                    tool_call)>>,
                       <<Invocation(tool_call)>>,
                       <<SendPushover(configured, outcome).status>>)
    ELSE Step(LocalError("KeyError"), <<>>, <<>>, <<>>)

\* A variant that skips a call whose arguments do not decode or do not bind.
HandleOneSkipsMalformed(tool_call, configured, outcome) ==
    IF tool_call.name = "record_user_details"
    THEN LET args == JsonLoads(tool_call.arguments)
         IN  IF ~args.ok \/ ~Binds({"email"}, {"email", "name", "notes"}, args.keys)
             THEN Step(NoError, <<>>, <<>>, <<>>)
             ELSE Step(NoError,
                       <<ToolResult(RecordUserDetails(args.keys, configured, outcome),
                                    tool_call)>>,
                       <<Invocation(tool_call)>>,
                       <<SendPushover(configured, outcome).status>>)
    ELSE IF tool_call.name = "record_unknown_question"
    THEN LET args == JsonLoads(tool_call.arguments)
         IN  IF ~args.ok \/ ~Binds({"question"}, {"question"}, args.keys)
             THEN Step(NoError, <<>>, <<>>, <<>>)
             ELSE Step(NoError,
                       <<ToolResult(RecordUnknownQuestion(args.keys, configured, outcome),
                                    tool_call)>>,
                       <<Invocation(tool_call)>>,
                       <<SendPushover(configured, outcome).status>>)
    ELSE Step(NoError, <<>>, <<>>, <<>>)

\* The body of handle_tool_calls' for loop, for one tool call.
HandleOne(tool_call, configured, outcome) ==
    IF tool_call.name = "record_user_details"
    THEN LET args == JsonLoads(tool_call.arguments)
         IN  IF ~args.ok
             THEN Step(LocalError("JSONDecodeError"), <<>>, <<>>, <<>>)
             ELSE IF ~Binds({"email"}, {"email", "name", "notes"}, args.keys)
             THEN Step(LocalError("TypeError"), <<>>, <<>>, <<>>)
             ELSE Step(NoError,
                       <<ToolResult(RecordUserDetails(args.keys, configured, outcome),
                                    tool_call)>>,
                       <<Invocation(tool_call)>>,
                       <<SendPushover(configured, outcome).status>>)
    ELSE IF tool_call.name = "record_unknown_question"
    THEN LET args == JsonLoads(tool_call.arguments)
         IN  IF ~args.ok
             THEN Step(LocalError("JSONDecodeError"), <<>>, <<>>, <<>>)
             ELSE IF ~Binds({"question"}, {"question"}, args.keys)
             THEN Step(LocalError("TypeError"), <<>>, <<>>, <<>>)
             ELSE Step(NoError,
                       <<ToolResult(RecordUnknownQuestion(args.keys, configured, outcome),
                                    tool_call)>>,
                       <<Invocation(tool_call)>>,
                       <<SendPushover(configured, outcome).status>>)
    ELSE Step(NoError, <<>>, <<>>, <<>>)

RECURSIVE HandleFrom(_, _, _, _, _)
HandleFrom(tool_calls, configured, outcomes, i, acc) ==
    IF i > Len(tool_calls)
    THEN acc
    ELSE LET one == HandleOne(tool_calls[i], configured, outcomes[i])
         IN  IF one.exc # NoError
             THEN [acc EXCEPT !.exc = one.exc, !.at = i]
             ELSE HandleFrom(tool_calls, configured, outcomes, i + 1,
                             [acc EXCEPT !.results = @ \o one.results,
                                         !.invoked = @ \o one.invoked,
                                         !.pushes = @ \o one.pushes])

\* handle_tool_calls: the results list, or the exception that left it.
HandleToolCalls(tool_calls, configured, outcomes) ==
    HandleFrom(tool_calls, configured, outcomes, 1,
               [exc |-> NoError, at |-> 0, results |-> <<>>, invoked |-> <<>>,
                pushes |-> <<>>])

\* str() as the f-string applies it.
Str(x) == IF x = None THEN "None" ELSE x

\* getattr(e, "response", {}).json().get("error", {}).get("message")
ExtractErrorMessage(e) ==
    CASE e.response = "absent"  -> [ok |-> FALSE, type |-> "AttributeError", value |-> None]
      [] e.response = "notjson" -> [ok |-> FALSE, type |-> "JSONDecodeError", value |-> None]
      [] e.error = "string"     -> [ok |-> FALSE, type |-> "AttributeError", value |-> None]
      [] OTHER                  -> [ok |-> TRUE, type |-> "", value |-> e.message]

ErrorTextDropsMessage(error_message) == <<Fallback>>

ErrorText(error_message) == <<ErrorPrefix, Str(error_message)>>

Truthy(content) == content # None /\ content # ""

FinalTextNoFallback(content) == <<content>>

FinalText(content) == IF Truthy(content) THEN <<content>> ELSE <<Fallback>>

InitialMessagesDropsHistory(prompt, h, m) ==
    <<Msg("system", prompt, <<>>, NoId)>> \o <<Msg("user", m, <<>>, NoId)>>

InitialMessages(prompt, h, m) ==
    <<Msg("system", prompt, <<>>, NoId)>> \o h \o <<Msg("user", m, <<>>, NoId)>>

LoopConditionIgnoresDone(d, i) == i < max_iterations

LoopConditionOffByOne(d, i) == ~d /\ i <= max_iterations

LoopCondition(d, i) == ~d /\ i < max_iterations

\* The tool calls of a response, with the ids the API gives them.
WithIds(calls, n) ==
    [i \in 1..Len(calls) |->
        [id |-> <<n, i>>, name |-> calls[i].name, arguments |-> calls[i].arguments]]

----------------------------------------------------------------------------
(* State machine *)

TypeOK ==
    /\ pc \in [Turns -> {"start", "loop", "returned", "raised"}]
    /\ message \in [Turns -> Messages]
    /\ history \in Histories
    /\ done \in [Turns -> BOOLEAN]
    /\ iteration \in [Turns -> 0..max_iterations]
    /\ requests \in [Turns -> 0..(max_iterations + 1)]
    /\ pushover_configured \in BOOLEAN
    /\ varied \in [Turns -> BOOLEAN]

InitLocals ==
    /\ pc = [t \in Turns |-> "start"]
    /\ messages = [t \in Turns |-> <<>>]
    /\ done = [t \in Turns |-> FALSE]
    /\ iteration = [t \in Turns |-> 0]
    /\ response = [t \in Turns |-> NoResponse]
    /\ result = [t \in Turns |-> NoResult]
    /\ raised = [t \in Turns |-> ""]
    /\ tools = Tools
    /\ system_prompt = SystemPrompt
    /\ requests = [t \in Turns |-> 0]
    /\ received = [t \in Turns |-> <<>>]
    /\ apiError = [t \in Turns |-> NoError]
    /\ invoked = [t \in Turns |-> <<>>]
    /\ lastPush = [t \in Turns |-> <<>>]
    /\ abortAt = [t \in Turns |-> 0]
    /\ varied = [t \in Turns |-> FALSE]

Init ==
    /\ InitLocals
    /\ message = [t \in Turns |-> "Who are you?"]
    /\ history \in Histories \ {<<>>}
    /\ pushover_configured \in BOOLEAN

InitConc ==
    /\ InitLocals
    /\ message \in [Turns -> Messages]
    /\ message[1] = "Who are you?"
    /\ history \in Histories
    /\ pushover_configured \in BOOLEAN

\* chat, lines 244-247
ChatStart(t) ==
    /\ pc[t] = "start"
    /\ messages' = [messages EXCEPT ![t] = InitialMessages(system_prompt, history, message[t])]
    /\ done' = [done EXCEPT ![t] = FALSE]
    /\ iteration' = [iteration EXCEPT ![t] = 0]
    /\ pc' = [pc EXCEPT ![t] = "loop"]
    /\ UNCHANGED <<message, history, response, result, raised, tools, system_prompt,
                   pushover_configured, requests, received, apiError, invoked,
                   lastPush, abortAt, varied>>

\* chat's except clause, lines 268-272
Except(t, e) ==
    LET x == ExtractErrorMessage(e)
    IN  IF x.ok
        THEN /\ pc' = [pc EXCEPT ![t] = "returned"]
             /\ result' = [result EXCEPT ![t] = ErrorText(x.value)]
             /\ raised' = raised
        ELSE /\ pc' = [pc EXCEPT ![t] = "raised"]
             /\ raised' = [raised EXCEPT ![t] = x.type]
             /\ result' = result

\* One pass of the while loop in which the completion request raises.
CreateRaises(t, e) ==
    /\ pc[t] = "loop"
    /\ LoopCondition(done[t], iteration[t])
    /\ requests' = [requests EXCEPT ![t] = @ + 1]
    /\ apiError' = [apiError EXCEPT ![t] = e]
    /\ Except(t, e)
    /\ UNCHANGED <<message, history, messages, done, iteration, response, tools,
                   system_prompt, pushover_configured, received, invoked,
                   abortAt, varied>>
    /\ lastPush' = [lastPush EXCEPT ![t] = <<>>]

\* One pass of the while loop answered with a finish reason other than "tool_calls".
CreateStops(t, fr, content) ==
    /\ pc[t] = "loop"
    /\ LoopCondition(done[t], iteration[t])
    /\ requests' = [requests EXCEPT ![t] = @ + 1]
    /\ LET r == [finish_reason |-> fr, content |-> content, tool_calls |-> <<>>]
       IN  /\ response' = [response EXCEPT ![t] = r]
           /\ received' = [received EXCEPT ![t] = Append(@, r)]
    /\ done' = [done EXCEPT ![t] = TRUE]
    /\ lastPush' = [lastPush EXCEPT ![t] = <<>>]
    /\ UNCHANGED <<pc, message, history, messages, iteration, result, raised, tools,
                   system_prompt, pushover_configured, apiError, invoked,
                   abortAt, varied>>

\* One pass of the while loop answered with finish reason "tool_calls".
CreateToolCalls(t, content, calls, outcomes) ==
    /\ pc[t] = "loop"
    /\ LoopCondition(done[t], iteration[t])
    /\ (calls = PlainBatch /\ content = None) \/ ~varied[t]
    /\ varied' = [varied EXCEPT ![t] = @ \/ ~(calls = PlainBatch /\ content = None)]
    /\ requests' = [requests EXCEPT ![t] = @ + 1]
    /\ LET r == [finish_reason |-> "tool_calls", content |-> content,
                 tool_calls |-> WithIds(calls, requests[t] + 1)]
           h == HandleToolCalls(r.tool_calls, pushover_configured, outcomes)
       IN  /\ response' = [response EXCEPT ![t] = r]
           /\ received' = [received EXCEPT ![t] = Append(@, r)]
           /\ invoked' = [invoked EXCEPT ![t] = @ \o h.invoked]
           /\ lastPush' = [lastPush EXCEPT ![t] = h.pushes]
           /\ abortAt' = [abortAt EXCEPT ![t] = h.at]
           /\ IF h.exc # NoError
              THEN /\ Except(t, h.exc)
                   /\ UNCHANGED <<messages, iteration>>
              ELSE /\ messages' = [messages EXCEPT ![t] =
                          Append(@, Msg("assistant", r.content, r.tool_calls, NoId))
                              \o h.results]
                   /\ iteration' = [iteration EXCEPT ![t] = @ + 1]
                   /\ UNCHANGED <<pc, result, raised>>
    /\ UNCHANGED <<message, history, done, tools, system_prompt, pushover_configured,
                   apiError>>

\* chat, line 275
ChatReturn(t) ==
    /\ pc[t] = "loop"
    /\ ~LoopCondition(done[t], iteration[t])
    /\ result' = [result EXCEPT ![t] = FinalText(response[t].content)]
    /\ pc' = [pc EXCEPT ![t] = "returned"]
    /\ UNCHANGED <<message, history, messages, done, iteration, response, raised,
                   tools, system_prompt, pushover_configured, requests, received,
                   apiError, invoked, lastPush, abortAt, varied>>

Next ==
    \/ ChatStart(1)
    \/ \E e \in APIErrors : CreateRaises(1, e)
    \/ \E f \in Finals : CreateStops(1, f.finish_reason, f.content)
    \/ \E o \in [1..Len(PlainBatch) -> PushOutcomes] :
          CreateToolCalls(1, None, PlainBatch, o)
    \/ /\ ~varied[1]
       /\ \E c \in ToolCallContents, b \in Batches :
             \E o \in [1..Len(b) -> PushOutcomes] : CreateToolCalls(1, c, b, o)
    \/ ChatReturn(1)

Spec == Init /\ [][Next]_vars

NextConc ==
    \E t \in Turns :
        \/ ChatStart(t)
        \/ \E e \in ConcErrors : CreateRaises(t, e)
        \/ \E f \in Finals : CreateStops(t, f.finish_reason, f.content)
        \/ \E o \in [1..Len(PlainBatch) -> PushOutcomes] :
              CreateToolCalls(t, None, PlainBatch, o)
        \/ ChatReturn(t)

SpecConc == InitConc /\ [][NextConc]_vars

----------------------------------------------------------------------------
(* Vocabulary of the properties *)

IsToolCalls(r) == r.finish_reason = "tool_calls"

Over(t) == pc[t] \in {"returned", "raised"}

ToolCallAnswers(t) == { k \in 1..Len(received[t]) : IsToolCalls(received[t][k]) }

FinalAnswers(t) == { k \in 1..Len(received[t]) : ~IsToolCalls(received[t][k]) }

NamesRegisteredTool(c) ==
    c.name = "record_user_details" \/ c.name = "record_unknown_question"

RegisteredCalls(calls) == SelectSeq(calls, NamesRegisteredTool)

\* The arguments decode and fit the signature of the tool the call names.
ArgumentsFit(c) ==
    \/ c.name = "record_user_details" /\ c.arguments = ArgsEmail
    \/ c.name = "record_unknown_question" /\ c.arguments = ArgsQuestion

Malformed(c) == NamesRegisteredTool(c) /\ ~ArgumentsFit(c)

Shape(m) == [role |-> m.role, tool_calls |-> m.tool_calls, tool_call_id |-> m.tool_call_id]

Shapes(ms) == [j \in 1..Len(ms) |-> Shape(ms[j])]

\* The assistant message of response r followed by one tool result per call
\* of answered, in order, each with the id of its call.
SegmentShape(r, answered) ==
    <<[role |-> "assistant", tool_calls |-> r.tool_calls, tool_call_id |-> NoId]>>
        \o [i \in 1..Len(answered) |->
               [role |-> "tool", tool_calls |-> <<>>, tool_call_id |-> answered[i].id]]

SeedShape(t) ==
    <<[role |-> "system", tool_calls |-> <<>>, tool_call_id |-> NoId]>>
        \o Shapes(history)
        \o <<[role |-> "user", tool_calls |-> <<>>, tool_call_id |-> NoId]>>

RECURSIVE RegisteredTranscript(_, _)
RegisteredTranscript(t, n) ==
    IF n = 0
    THEN SeedShape(t)
    ELSE RegisteredTranscript(t, n - 1)
             \o SegmentShape(received[t][n], RegisteredCalls(received[t][n].tool_calls))

RECURSIVE FullTranscript(_, _)
FullTranscript(t, n) ==
    IF n = 0
    THEN SeedShape(t)
    ELSE FullTranscript(t, n - 1)
             \o SegmentShape(received[t][n], received[t][n].tool_calls)

LastN(ms, n) == SubSeq(ms, Len(ms) - n + 1, Len(ms))

ContentOrFallback(content) ==
    IF content = None \/ content = ""
    THEN <<"I apologize, but I encountered an error processing your request.">>
    ELSE <<content>>

----------------------------------------------------------------------------
(* C1 *)

\* C1: once a response with a finish reason other than "tool_calls" has
\* arrived, it is the last response of the turn, no completion request follows
\* it, chat does not raise, and what chat returns is that response's content
\* when it is non-empty and the fixed fallback string otherwise.
C1_FinalAnswer ==
    \A t \in Turns : \A k \in FinalAnswers(t) :
        /\ k = Len(received[t])
        /\ requests[t] = k
        /\ pc[t] \in {"loop", "returned"}
        /\ pc[t] = "returned" => result[t] = ContentOrFallback(received[t][k].content)

C1_Witness ==
    \E t \in Turns :
        /\ pc[t] = "returned"
        /\ Len(received[t]) = 3
        /\ received[t][3].finish_reason = "length"
        /\ result[t] = <<Fallback>>
        /\ history # <<>>
        /\ message[t] = "Mail me"

----------------------------------------------------------------------------
(* C2 *)

\* C2: when N responses with finish reason "tool_calls" have been followed by
\* a response with another finish reason, N is below 10 and the turn has
\* issued exactly N + 1 completion requests, whatever the tool calls were; a
\* turn issues one request per response it received, plus the one that raised.
C2_RequestCount ==
    \A t \in Turns :
        /\ requests[t] = Len(received[t]) + (IF apiError[t] = NoError THEN 0 ELSE 1)
        /\ FinalAnswers(t) # {} =>
              /\ Cardinality(ToolCallAnswers(t)) < 10
              /\ ToolCallAnswers(t) = 1..(Len(received[t]) - 1)
              /\ requests[t] = Cardinality(ToolCallAnswers(t)) + 1

C2_Witness ==
    /\ pc[1] = "returned"
    /\ Len(received[1]) = 4
    /\ FinalAnswers(1) = {4}
    /\ Len(received[1][2].tool_calls) = 2
    /\ received[1][2].tool_calls[1].name = "unknown_tool"
    /\ requests[1] = 4

----------------------------------------------------------------------------
(* C3 *)

\* C3 as stated: the transcript is the seed followed, for every dispatched
\* response, by its assistant message and one tool result per tool call
\* request, in request order, the i-th result carrying the i-th request's id.
C3_OneResultPerRequest ==
    \A t \in Turns :
        pc[t] # "start" => Shapes(messages[t]) = FullTranscript(t, iteration[t])

\* C3 as amended: the transcript is the seed followed, for every dispatched
\* response, by its assistant message and one tool result per request that
\* names a registered tool, in request order and with that request's id; every
\* tool result references an id of the nearest preceding assistant message.
C3_OneResultPerRegisteredRequest ==
    \A t \in Turns :
        pc[t] # "start" =>
            /\ Shapes(messages[t]) = RegisteredTranscript(t, iteration[t])
            /\ \A j \in 1..Len(messages[t]) :
                  messages[t][j].role = "tool" =>
                      \E i \in 1..(j - 1) :
                          /\ messages[t][i].role = "assistant"
                          /\ \A m \in (i + 1)..(j - 1) : messages[t][m].role = "tool"
                          /\ \E c \in 1..Len(messages[t][i].tool_calls) :
                                messages[t][i].tool_calls[c].id = messages[t][j].tool_call_id

C3_Witness ==
    /\ iteration[1] = 2
    /\ Len(received[1][2].tool_calls) = 2
    /\ received[1][2].tool_calls[1].name = "unknown_tool"
    /\ received[1][2].tool_calls[2].name = "record_user_details"
    /\ messages[1][Len(messages[1])].role = "tool"
    /\ messages[1][Len(messages[1])].tool_call_id = <<2, 2>>
    /\ messages[1][Len(messages[1]) - 1].role = "assistant"

----------------------------------------------------------------------------
(* C4 *)

TenToolCalls(t) == ToolCallAnswers(t) = 1..10

\* C4 as stated: after ten "tool_calls" responses in a row the turn has issued
\* exactly 10 requests, does not raise, returns the 10th response's content
\* or the fallback, and the transcript ends with the 10th assistant message
\* and one result per tool call of the 10th response.
C4_ExhaustedAsStated ==
    \A t \in Turns :
        TenToolCalls(t) =>
            /\ requests[t] = 10
            /\ pc[t] # "raised"
            /\ pc[t] = "returned" => result[t] = ContentOrFallback(received[t][10].content)
            /\ LET r == received[t][10]
               IN  LastN(Shapes(messages[t]), 1 + Len(r.tool_calls))
                       = SegmentShape(r, r.tool_calls)

\* C4 as amended: a turn never issues an 11th request.  After ten "tool_calls"
\* responses in a row it has issued exactly 10; if the dispatch of the 10th
\* response completed, chat does not raise, returns the 10th response's
\* content or the fallback, and the transcript ends with the 10th assistant
\* message and one result per registered-tool call of it; if that dispatch
\* raised, nothing of the 10th response is in the transcript and the turn
\* ended in the except clause, which raised.
C4_Exhausted ==
    \A t \in Turns :
        /\ requests[t] <= 10
        /\ TenToolCalls(t) =>
              /\ requests[t] = 10
              /\ LET r == received[t][10]
                     answered == RegisteredCalls(r.tool_calls)
                 IN  IF abortAt[t] = 0
                     THEN /\ pc[t] \in {"loop", "returned"}
                          /\ iteration[t] = 10
                          /\ pc[t] = "returned" =>
                                result[t] = ContentOrFallback(r.content)
                          /\ LastN(Shapes(messages[t]), 1 + Len(answered))
                                 = SegmentShape(r, answered)
                     ELSE /\ pc[t] = "raised"
                          /\ iteration[t] = 9
                          /\ \A j \in 1..Len(messages[t]) :
                                /\ messages[t][j].tool_call_id \notin
                                       { c.id : c \in { r.tool_calls[i] : i \in 1..Len(r.tool_calls) } }
                                /\ messages[t][j].tool_calls # r.tool_calls \/ r.tool_calls = <<>>

C4_Witness ==
    /\ TenToolCalls(1)
    /\ pc[1] = "returned"
    /\ received[1][10].content = "Let me note that."
    /\ Len(received[1][10].tool_calls) = 2
    /\ received[1][10].tool_calls[1].name = "unknown_tool"
    /\ result[1] = <<"Let me note that.">>
    /\ requests[1] = 10

----------------------------------------------------------------------------
(* C5 *)

HasErrorMessage(e) == e.response = "json" /\ e.error = "object" /\ e.message # None

\* C5: when a completion request raises, the turn is over: the failing request
\* is the turn's last, no handler is invoked for it or after it, and when the
\* exception carries a JSON body {"error": {"message": m}} chat returns a
\* text that contains m.
C5_RemoteErrorTerminal ==
    \A t \in Turns :
        apiError[t] # NoError =>
            /\ Over(t)
            /\ requests[t] = Len(received[t]) + 1
            /\ \A i \in 1..Len(invoked[t]) : invoked[t][i].id[1] <= Len(received[t])
            /\ HasErrorMessage(apiError[t]) =>
                  /\ pc[t] = "returned"
                  /\ \E i \in 1..Len(result[t]) : result[t][i] = apiError[t].message

C5_Witness ==
    /\ apiError[1].message = "rate limited"
    /\ requests[1] = 3
    /\ Len(invoked[1]) = 2
    /\ pc[1] = "returned"
    /\ result[1] = <<ErrorPrefix, "rate limited">>

----------------------------------------------------------------------------
(* C6 *)

\* C6: whenever a completion request raises, chat returns a text and lets no
\* exception reach its caller.
C6_AlwaysReturnsText ==
    \A t \in Turns :
        apiError[t] # NoError => pc[t] = "returned" /\ result[t] # NoResult

----------------------------------------------------------------------------
(* C7 *)

Dispatched(t, n) == n < Len(received[t]) \/ abortAt[t] = 0

InvokedIds(t) == { invoked[t][i].id : i \in 1..Len(invoked[t]) }

ResultIds(t) ==
    { messages[t][j].tool_call_id : j \in { k \in 1..Len(messages[t]) : messages[t][k].role = "tool" } }

\* C7: a tool call that names no registered tool is never the call at which
\* a dispatch raises, no handler is invoked for it and no result message
\* carries its id; the registered-tool calls of its batch that precede any
\* raising call are still handed to their handlers; and when the dispatch of
\* its batch completes the turn goes on: the iteration is counted and the
\* loop asks again unless the budget of 10 is spent.
C7_UnknownToolSkipped ==
    \A t \in Turns : \A n \in ToolCallAnswers(t) :
        LET calls == received[t][n].tool_calls
        IN  \A i \in 1..Len(calls) :
                ~NamesRegisteredTool(calls[i]) =>
                    /\ calls[i].id \notin InvokedIds(t)
                    /\ calls[i].id \notin ResultIds(t)
                    /\ n = Len(received[t]) => abortAt[t] # i
                    /\ \A j \in 1..Len(calls) :
                          /\ NamesRegisteredTool(calls[j])
                          /\ Dispatched(t, n) \/ j < abortAt[t]
                          => calls[j].id \in InvokedIds(t)
                    /\ Dispatched(t, n) =>
                          /\ iteration[t] >= n
                          /\ calls \in { messages[t][k].tool_calls : k \in 1..Len(messages[t]) }
                          /\ n = Len(received[t]) /\ apiError[t] = NoError =>
                                \/ pc[t] = "loop" /\ ~done[t]
                                \/ pc[t] = "returned" /\ iteration[t] = 10

C7_Witness ==
    /\ Len(received[1]) = 2
    /\ Len(received[1][1].tool_calls) = 2
    /\ received[1][1].tool_calls[1].name = "unknown_tool"
    /\ received[1][1].tool_calls[1].arguments = ArgsBad
    /\ received[1][1].tool_calls[2].name = "record_user_details"
    /\ InvokedIds(1) = {<<1, 2>>, <<2, 1>>}
    /\ ResultIds(1) = {<<1, 2>>, <<2, 1>>}
    /\ pc[1] = "loop"

----------------------------------------------------------------------------
(* C8 *)

FirstMalformed(calls) ==
    IF \E i \in 1..Len(calls) : Malformed(calls[i])
    THEN CHOOSE i \in 1..Len(calls) :
             Malformed(calls[i]) /\ \A j \in 1..(i - 1) : ~Malformed(calls[j])
    ELSE 0

\* C8 as stated: a registered-tool call whose arguments do not decode or lack
\* a required parameter is skipped like an unknown tool: no handler is invoked
\* for it, the dispatch of its batch completes, the turn is not aborted and
\* the other registered-tool calls of the batch are handed to their handlers.
C8_MalformedSkippedAsStated ==
    \A t \in Turns : \A n \in ToolCallAnswers(t) :
        LET calls == received[t][n].tool_calls
        IN  \A i \in 1..Len(calls) :
                Malformed(calls[i]) =>
                    /\ calls[i].id \notin InvokedIds(t)
                    /\ Dispatched(t, n)
                    /\ pc[t] # "raised"
                    /\ iteration[t] >= n
                    /\ \A j \in 1..Len(calls) :
                          ArgumentsFit(calls[j]) => calls[j].id \in InvokedIds(t)

\* C8 as amended: such a call is not skipped but ends the turn.  No handler is
\* invoked for it or for any later call of its batch, the registered-tool calls
\* before it have been handed to their handlers, nothing of the response is
\* appended to the transcript, the iteration is not counted, no further
\* completion request is issued, and the turn ends in chat's except clause,
\* which raises AttributeError because the exception has no response payload.
C8_MalformedAborts ==
    \A t \in Turns :
        /\ abortAt[t] # 0 => abortAt[t] = FirstMalformed(response[t].tool_calls)
        /\ \A n \in ToolCallAnswers(t) :
              LET calls == received[t][n].tool_calls
                  a == FirstMalformed(calls)
              IN  a # 0 =>
                      /\ n = Len(received[t])
                      /\ requests[t] = n
                      /\ abortAt[t] = a
                      /\ iteration[t] = n - 1
                      /\ pc[t] = "raised"
                      /\ raised[t] = "AttributeError"
                      /\ result[t] = NoResult
                      /\ \A j \in 1..Len(calls) :
                            calls[j].id \in InvokedIds(t)
                                <=> (j < a /\ NamesRegisteredTool(calls[j]))
                      /\ \A j \in 1..Len(calls) : calls[j].id \notin ResultIds(t)
                      /\ Shapes(messages[t]) = RegisteredTranscript(t, n - 1)

C8_Witness ==
    /\ Len(received[1]) = 3
    /\ Len(received[1][3].tool_calls) = 2
    /\ received[1][3].tool_calls[1] =
           [id |-> <<3, 1>>, name |-> "record_unknown_question", arguments |-> ArgsQuestion]
    /\ received[1][3].tool_calls[2] =
           [id |-> <<3, 2>>, name |-> "record_user_details", arguments |-> ArgsEmpty]
    /\ abortAt[1] = 2
    /\ <<3, 1>> \in InvokedIds(1)
    /\ pc[1] = "raised"

----------------------------------------------------------------------------
(* C9 *)

\* C9: whatever the notification call did (delivered, raised, credentials not
\* configured), every result message a handler produced carries
\* {"status": "success"}, one result is appended per handler invocation, and
\* a dispatch never raises at a call whose arguments fit its tool.
C9_AlwaysSuccess ==
    \A t \in Turns :
        /\ \A j \in 1..Len(messages[t]) :
              messages[t][j].role = "tool" =>
                  messages[t][j].content = "{\"status\": \"success\"}"
        /\ abortAt[t] = 0 => ResultIds(t) = InvokedIds(t)
        /\ abortAt[t] # 0 => ~ArgumentsFit(response[t].tool_calls[abortAt[t]])
        /\ Len(lastPush[t]) <= Len(response[t].tool_calls)

C9_Witness ==
    /\ pushover_configured
    /\ lastPush[1] = <<"error", "1">>
    /\ response[1].tool_calls[1].name = "record_user_details"
    /\ response[1].tool_calls[2].name = "record_unknown_question"
    /\ LastN(messages[1], 2) =
           << Msg("tool", "{\"status\": \"success\"}", <<>>, response[1].tool_calls[1].id),
              Msg("tool", "{\"status\": \"success\"}", <<>>, response[1].tool_calls[2].id) >>
    /\ pc[1] = "loop"

C9_WitnessNotConfigured ==
    /\ ~pushover_configured
    /\ lastPush[1] = <<"error">>
    /\ messages[1][Len(messages[1])].content = "{\"status\": \"success\"}"

----------------------------------------------------------------------------
(* C10 *)

IsPrefix(s, u) == Len(s) <= Len(u) /\ SubSeq(u, 1, Len(s)) = s

Locals(t) ==
    <<pc[t], messages[t], done[t], iteration[t], response[t], result[t], raised[t],
      requests[t], received[t], apiError[t], invoked[t]>>

C10_State ==
    /\ tools = <<"record_user_details", "record_unknown_question">>
    /\ system_prompt = "system_prompt"
    /\ \A t \in Turns :
          pc[t] # "start" =>
              /\ Len(messages[t]) >= Len(history) + 2
              /\ SubSeq(messages[t], 1, Len(history) + 2)
                     = <<[role |-> "system", content |-> system_prompt,
                          tool_calls |-> <<>>, tool_call_id |-> <<>>]>>
                       \o history
                       \o <<[role |-> "user", content |-> message[t],
                             tool_calls |-> <<>>, tool_call_id |-> <<>>]>>
    /\ \A a, b \in Turns :
          /\ message[a] = message[b]
          /\ received[a] = received[b]
          /\ apiError[a] = apiError[b]
          /\ pc[a] # "start" /\ pc[b] # "start"
          => /\ messages[a] = messages[b]
             /\ iteration[a] = iteration[b]
             /\ Over(a) /\ Over(b) =>
                   pc[a] = pc[b] /\ result[a] = result[b] /\ raised[a] = raised[b]

C10_Step ==
    /\ history' = history
    /\ tools' = tools
    /\ system_prompt' = system_prompt
    /\ message' = message
    /\ \A t \in Turns : pc[t] # "start" => IsPrefix(messages[t], messages'[t])
    /\ \A a, b \in Turns : a # b /\ Locals(a)' # Locals(a) => Locals(b)' = Locals(b)

\* C10: in every interleaving of two turns, a turn's transcript starts as the
\* system message, the caller's history and the turn's user message and only
\* grows by appending; no step changes the caller's history, the tool list or
\* the system prompt; a step of one turn leaves the other turn's locals as they
\* are; and two turns with the same message and history that received the same
\* responses hold the same transcript and end with the same outcome.
C10_Isolation == [](C10_State) /\ [][C10_Step]_vars

C10_Witness ==
    /\ history # <<>>
    /\ message[1] = message[2]
    /\ pc[1] = "loop" /\ iteration[1] = 2
    /\ pc[2] = "returned" /\ iteration[2] = 1
    /\ Len(messages[1]) = Len(history) + 2 + 4
    /\ Len(messages[2]) = Len(history) + 2 + 2

====
